---- MODULE Spec2Model ----
(***************************************************************************)
(* A model of zod-store's persistence core (src/src/persistence.ts):       *)
(* createZodStore's migration-chain validation, and the load and save      *)
(* pipelines of the instance it returns.  One instance, one or two file    *)
(* paths, one call in flight at a time.  The collaborators the instance is given (the *)
(* file system, the serializer, the Zod schemas, the migrate functions and *)
(* the default factory) are the environment: their outcomes are drawn from *)
(* small sets, and every invocation is recorded in `log`.                  *)
(***************************************************************************)
EXTENDS Integers, Sequences, FiniteSets, TLC

\* Largest schema version an instance is configured with; files claim
\* versions up to MaxVersion + 1.
MaxVersion == 3
\* Longest migration list handed to createZodStore.
MaxMigrations == 2
\* Number of default-factory invocations after which no new load is started.
MaxFactoryCalls == 2
\* Number of calls that are invoked without awaiting one another.
MaxCalls == 2

----------------------------------------------------------------------------
(* Plain JavaScript values: scalars, and objects as ordered key/value lists *)

Val(t, n, o) == [t |-> t, n |-> n, o |-> o]
Num(n) == Val("number", n, <<>>)
\* 1.5: a number that is not an integer
Fraction == Val("fraction", 1, <<>>)
Str(n) == Val("string", n, <<>>)
Null == Val("null", 0, <<>>)
Obj(pairs) == Val("object", 0, pairs)

Keys(o) == {o[i][1] : i \in 1..Len(o)}
Has(o, k) == k \in Keys(o)
Get(o, k) == o[CHOOSE i \in 1..Len(o) : o[i][1] = k][2]
\* rest destructuring: const { k: _unused, ...rest } = o
Omit(o, k) == SelectSeq(o, LAMBDA p : p[1] # k)
Put(o, k, v) ==
  IF Has(o, k)
  THEN [i \in 1..Len(o) |-> IF o[i][1] = k THEN <<k, v>> ELSE o[i]]
  ELSE Append(o, <<k, v>>)
\* object spread: { ...base, ...o }
RECURSIVE Spread(_, _)
Spread(base, o) ==
  IF o = <<>> THEN base
  ELSE Spread(Put(base, Head(o)[1], Head(o)[2]), Tail(o))

\* deep equality of two values, key order of objects ignored
SameValue(x, y) ==
  /\ x.t = y.t
  /\ x.n = y.n
  /\ Keys(x.o) = Keys(y.o)
  /\ \A k \in Keys(x.o) : Get(x.o, k) = Get(y.o, k)

IsNumber(v) == v.t \in {"number", "fraction"}
IsInteger(v) == v.t = "number"
IsObject(v) == v.t = "object"

----------------------------------------------------------------------------
(* The serializer: text is what stringify produced, or malformed           *)

Text(doc, compact) == [malformed |-> FALSE, compact |-> compact, doc |-> doc]
MalformedText == [malformed |-> TRUE, compact |-> FALSE, doc |-> Null]

stringify(data, compact) == Text(data, compact)
parseThrows(content) == content.malformed
parse(content) == content.doc

----------------------------------------------------------------------------
(* Zod object schemas.  The data of version v has the first v fields of    *)
(* FieldName.  A schema has a shape (the fields it declares) and a kind:   *)
(*   "strip"  z.object: unknown keys are dropped;                          *)
(*   "loose"  z.looseObject: unknown keys pass through;                    *)
(*   "codec"  z.object whose field a is stored as a string and decoded to  *)
(*            a number (encode is the reverse);                            *)
(*   "step"   the schema of a migration step: z.object, field a either     *)
(*            form.                                                        *)

FieldName == <<"a", "b", "c", "d", "e">>
ShapeOf(v) == SubSeq(FieldName, 1, IF v < 1 THEN 1 ELSE v)
InShape(shape, k) == \E i \in 1..Len(shape) : shape[i] = k

Schema(shape, kind) == [shape |-> shape, kind |-> kind]

InputOk(s, k, v) ==
  IF k = "a"
  THEN CASE s.kind = "codec" -> v.t = "string"
         [] s.kind = "step" -> v.t \in {"number", "string"}
         [] OTHER -> v.t = "number"
  ELSE v.t = "number"
Decode(s, k, v) == IF s.kind = "codec" /\ k = "a" THEN Num(v.n) ELSE v
OutputOk(s, k, v) ==
  IF s.kind = "step" /\ k = "a" THEN v.t \in {"number", "string"} ELSE v.t = "number"
Encode(s, k, v) == IF s.kind = "codec" /\ k = "a" THEN Str(v.n) ELSE v

Unknown(s, d) ==
  IF s.kind = "loose" THEN SelectSeq(d.o, LAMBDA p : ~InShape(s.shape, p[1])) ELSE <<>>

\* schema.parseAsync(d): does it resolve, and to what
parseOk(s, d) ==
  /\ IsObject(d)
  /\ \A i \in 1..Len(s.shape) :
       Has(d.o, s.shape[i]) /\ InputOk(s, s.shape[i], Get(d.o, s.shape[i]))
parseAsync(s, d) ==
  Obj([i \in 1..Len(s.shape) |->
         <<s.shape[i], Decode(s, s.shape[i], Get(d.o, s.shape[i]))>>] \o Unknown(s, d))

\* schema.encodeAsync(x): does it resolve, and to what
encodeOk(s, x) ==
  /\ IsObject(x)
  /\ \A i \in 1..Len(s.shape) :
       Has(x.o, s.shape[i]) /\ OutputOk(s, s.shape[i], Get(x.o, s.shape[i]))
encodeAsync(s, x) ==
  Obj([i \in 1..Len(s.shape) |->
         <<s.shape[i], Encode(s, s.shape[i], Get(x.o, s.shape[i]))>>] \o Unknown(s, x))

\* the values of the schema's output type T
IsTyped(s, x) ==
  /\ encodeOk(s, x)
  /\ s.kind = "loose" \/ \A k \in Keys(x.o) : InShape(s.shape, k)

----------------------------------------------------------------------------
(* Inputs                                                                  *)

\* version is typed number and never checked by createZodStore: -1 and 0 stand
\* for the versions that are not positive
Versions == -1..MaxVersion
\* migrations: the `version` of each MigrationStep, in the order supplied
MigrationLists ==
  UNION {[1..n -> Versions] : n \in 0..MaxMigrations}
SchemaKinds == {"strip", "loose", "codec"}
\* default: absent, a value, a factory, or a factory that throws
DefaultKinds == {"none", "value", "factory", "throwing"}

\* the options object; version is read only when hasVersion
Options ==
  {o \in [hasVersion : BOOLEAN, version : Versions, migrations : MigrationLists,
          schema : SchemaKinds, default : DefaultKinds] :
     o.hasVersion \/ o.version = 1}

Fields(shape, a) == [i \in 1..Len(shape) |-> <<shape[i], IF i = 1 THEN a ELSE Num(0)>>]

\* what a file's _version may hold
VersionValues ==
  {Str(1), Fraction, Null} \cup {Num(n) : n \in -1..(MaxVersion + 1)}
\* the documents a file may hold: no object; an object without _version; one
\* with a positive integer _version, with any number of fields; one with
\* another _version
FileDocs ==
  {Null, Num(7)}
    \cup {Obj(Fields(SubSeq(FieldName, 1, n), a)) : n \in 0..MaxVersion, a \in {Num(1), Str(1)}}
    \cup {Obj(<<<<"_version", Num(v)>>>> \o Fields(SubSeq(FieldName, 1, n), a)) :
            v \in 1..MaxVersion, n \in 0..MaxVersion, a \in {Num(1), Str(1)}}
    \cup {Obj(<<<<"_version", v>>>> \o Fields(SubSeq(FieldName, 1, 1), Num(1))) :
            v \in VersionValues}

NoFile == [exists |-> FALSE, text |-> MalformedText]
File(text) == [exists |-> TRUE, text |-> text]
Files == {NoFile, File(MalformedText)} \cup {File(Text(d, FALSE)) : d \in FileDocs}

----------------------------------------------------------------------------
(* State                                                                   *)

VARIABLES
  factory,          \* the factory that made the instance
  jsYamlModule,     \* yaml.ts: whether the js-yaml module is loaded and cached
  pc,               \* position: "new", "threw", "ready", a stage of load/save, "done"
  call,             \* the call in flight or just settled: "none", "load", "save"
  options,          \* the options createZodStore was called with
  ctorError,        \* which constructor check threw ("none" when it returned)
  sortedMigrations, \* the instance's sorted migration chain
  paths,            \* the paths the instance's callers pass
  filePath,         \* the path passed to the call in flight ("" if none)
  file,             \* the file at path "p"
  other,            \* the file at path "q"
  throwOnError,     \* load's option
  fileContent,      \* load: the text read
  parsed,           \* load: the value parsed from the text
  data,             \* load: the payload being migrated; save: the encoded value
  parsedData,       \* load: the payload as validated by the migration step's schema
  dataVersion,      \* load: the version of data
  arg,              \* save: the value to save
  saveOptions,      \* save: the compact option as passed ("omitted", "true", "false")
  compact,          \* save: the compact flag after defaulting
  content,          \* save: the text to write
  outcome,          \* how the call settled
  failedAt,         \* the stage at which the call failed ("none" if it has not)
  caught,           \* what the failed operation threw, and the cause of the rejection
  log,              \* the collaborators invoked by the call, in order
  factoryCalls,     \* invocations of the default factory so far
  defaultState,     \* the present content of the object options.default refers to
  calls,            \* overlapping calls: the locals of each call, in order of invocation
  written,          \* overlapping calls: the calls whose write reached the file, in order
  saved             \* the value whose save last wrote the file, if that is its content

vars ==
  <<factory, jsYamlModule, paths, pc, call, filePath, options, ctorError, sortedMigrations,
    file, other, throwOnError, fileContent, parsed, data, parsedData, dataVersion, arg,
    saveOptions, compact, content, outcome, failedAt, caught, log,
    factoryCalls, defaultState, calls, written, saved>>

overlapping == <<calls, written>>
config == <<factory, jsYamlModule, paths, options, ctorError, sortedMigrations, defaultState,
            overlapping>>
instance == <<call, filePath, config>>
loadLocals == <<throwOnError, fileContent, parsed, data, parsedData, dataVersion>>
saveLocals == <<arg, saveOptions, compact, content>>

Outcome(status, code, value, default, ref) ==
  [status |-> status, code |-> code, value |-> value, default |-> default, ref |-> ref]
\* the codes of a ZodStoreError
ErrorCode ==
  {"FileRead", "FileWrite", "InvalidFormat", "InvalidVersion", "UnsupportedVersion",
   "Validation", "Migration", "Encoding", "MissingDependency"}
Pending == Outcome("pending", "", Null, FALSE, 0)

\* what an operation threw ("ZodError", another "Error", or a "value" that is
\* no Error; "none" if there is no underlying error) and the cause given to
\* the rejection ("e": the thrown error itself; "new": a new Error made from
\* its string; "none")
Thrown(kind, cause) == [thrown |-> kind, cause |-> cause]
NoError == Thrown("none", "none")
\* error instanceof Error ? error : new Error(String(error))
errorOrNew(kind) == Thrown(kind, IF kind \in {"ZodError", "Error"} THEN "e" ELSE "new")
\* error instanceof ZodError ? error : new Error(String(error))
zodErrorOrNew(kind) == Thrown(kind, IF kind = "ZodError" THEN "e" ELSE "new")
\* a rejected fs promise carries an Error; user code (serializer, migrate) may
\* throw anything; a schema rejects with a ZodError or with what a refinement
\* or transform threw
FsErrors == {"Error"}
UserErrors == {"Error", "value"}
SchemaErrors == {"ZodError", "Error"}
\* rejected with a ZodStoreError of this code ("Error": with a plain Error)
Rejected(code) == Outcome("rejected", code, Null, FALSE, 0)
Resolved(value) == Outcome("resolved", "", value, FALSE, 0)
\* resolved to the default; ref tells the objects apart: 0 is the configured
\* value, n > 0 the n-th product of the factory
Defaulted(value, ref) == Outcome("resolved", "", value, TRUE, ref)
NotSaved == [valid |-> FALSE, x |-> Null]

currentVersion == options.version
versioned_Always == TRUE
versioned == options.hasVersion
schema == Schema(IF versioned THEN ShapeOf(currentVersion) ELSE ShapeOf(1), options.schema)
\* options.default as configured: a value of the schema's output type, or
\* ("invalid") one the schema does not accept, which nothing checks
FixedDefaults == {"value", "invalid"}
defaultValue ==
  Obj(Fields(schema.shape, IF options.default = "invalid" THEN Str(0) ELSE Num(0)))

\* overlapping calls: every invocation of load or save has locals of its own
\* (the closure of one call of the async function); slot i is the i-th call
\* invoked.  readOk and answers record what the environment answered, overlaps
\* the calls that were in flight when this one was invoked, attempted and
\* imported whether its getJsYaml called import('js-yaml') and got the module.
Slots == 1..MaxCalls
Idle ==
  [op |-> "none", pc |-> "idle", throwOnError |-> FALSE, readOk |-> FALSE,
   fileContent |-> MalformedText, parsed |-> Null, data |-> Null, parsedData |-> Null,
   dataVersion |-> 0, answers |-> <<>>, code |-> "", x |-> Null, compact |-> FALSE,
   content |-> MalformedText, outcome |-> Pending, overlaps |-> {},
   attempted |-> FALSE, imported |-> FALSE]

\* before the factory is called with the options
Start ==
  /\ jsYamlModule = FALSE
  /\ pc = "new"
  /\ call = "none"
  /\ filePath = ""
  /\ ctorError = "none"
  /\ sortedMigrations = <<>>
  /\ file = NoFile
  /\ other = NoFile
  /\ throwOnError = FALSE
  /\ fileContent = MalformedText
  /\ parsed = Null
  /\ data = Null
  /\ parsedData = Null
  /\ dataVersion = 0
  /\ arg = Null
  /\ saveOptions = "omitted"
  /\ compact = FALSE
  /\ content = MalformedText
  /\ outcome = Pending
  /\ failedAt = "none"
  /\ caught = NoError
  /\ log = <<>>
  /\ factoryCalls = 0
  /\ defaultState = defaultValue
  /\ written = <<>>
  /\ saved = NotSaved

Init ==
  /\ factory = "createZodStore"
  /\ paths = {"p"}
  /\ options \in Options
  /\ Start
  /\ calls = <<>>

----------------------------------------------------------------------------
(* createZodStore                                                          *)

sortMigrations_AsSupplied(migrations) == migrations
sortMigrations(migrations) == SortSeq(migrations, LAMBDA x, y : x < y)

chainError_NoEndCheck(sorted, hasVersion, version) ==
  IF \E i \in 1..Len(sorted) : sorted[i] # i THEN "sequential"
  ELSE IF Len(sorted) > 0 /\ ~hasVersion THEN "versionRequired"
  ELSE "none"

chainError_VersionFirst(sorted, hasVersion, version) ==
  IF Len(sorted) > 0 /\ ~hasVersion THEN "versionRequired"
  ELSE IF \E i \in 1..Len(sorted) : sorted[i] # i THEN "sequential"
  ELSE IF Len(sorted) > 0 /\ sorted[Len(sorted)] # version - 1 THEN "chainEnd"
  ELSE "none"

\* the constructor's checks on the sorted chain: the check that throws
chainError(sorted, hasVersion, version) ==
  IF \E i \in 1..Len(sorted) : sorted[i] # i THEN "sequential"
  ELSE IF Len(sorted) > 0 /\ ~hasVersion THEN "versionRequired"
  ELSE IF Len(sorted) > 0 /\ sorted[Len(sorted)] # version - 1 THEN "chainEnd"
  ELSE "none"

createZodStore ==
  /\ pc = "new"
  /\ LET sorted == sortMigrations(options.migrations)
         error == chainError(sorted, options.hasVersion, options.version)
     IN /\ ctorError' = error
        /\ sortedMigrations' = IF error = "none" THEN sorted ELSE <<>>
        /\ pc' = IF error = "none" THEN "ready" ELSE "threw"
  /\ UNCHANGED <<factory, jsYamlModule, paths, call, filePath, options, defaultState, overlapping, file, other, loadLocals, saveLocals, outcome,
                 failedAt, caught, log, factoryCalls, saved>>

\* the file at a path, and a write to it
fileAt(p) == IF p = "p" THEN file ELSE other
writeAt(p, f) ==
  IF p = "p" THEN file' = f /\ UNCHANGED other ELSE other' = f /\ UNCHANGED file

\* another program writes or removes the file at "p"
ExternalWrite ==
  /\ pc = "ready"
  /\ \E f \in Files : file' = f
  /\ saved' = NotSaved
  /\ UNCHANGED <<pc, call, filePath, other, config, loadLocals, saveLocals, outcome, failedAt, caught, log, factoryCalls>>

----------------------------------------------------------------------------
(* load                                                                    *)

\* a log entry: the collaborator, the migration step it belongs to (0 if
\* none) and the value it was handed (Null if none)
Call(op, n, x) == <<op, n, x>>

\* getDefault(), called with the log l of the call so far
getDefault_Memoized(l) ==
  /\ log' = Append(l, Call("getDefault", 0, Null))
  /\ CASE options.default = "none" ->
            outcome' = Rejected("Error") /\ UNCHANGED factoryCalls
       [] options.default \in FixedDefaults ->
            outcome' = Defaulted(defaultState, 0) /\ UNCHANGED factoryCalls
       [] options.default = "factory" ->
            /\ factoryCalls' = IF factoryCalls = 0 THEN 1 ELSE factoryCalls
            /\ outcome' = Defaulted(defaultValue, 1)
       [] options.default = "throwing" ->
            /\ factoryCalls' = factoryCalls + 1
            /\ outcome' = Rejected("Error")
getDefault(l) ==
  /\ log' = Append(l, Call("getDefault", 0, Null))
  /\ CASE options.default = "none" ->
            outcome' = Rejected("Error") /\ UNCHANGED factoryCalls
       [] options.default \in FixedDefaults ->
            outcome' = Defaulted(defaultState, 0) /\ UNCHANGED factoryCalls
       [] options.default = "factory" ->
            /\ factoryCalls' = factoryCalls + 1
            /\ outcome' = Defaulted(defaultValue, factoryCalls + 1)
       [] options.default = "throwing" ->
            /\ factoryCalls' = factoryCalls + 1
            /\ outcome' = Rejected("Error")

\* a failure is thrown rather than replaced by the default
mustThrow_NoDefaultOnly == options.default = "none"
mustThrow_OptionOnly == throwOnError
mustThrow_Inverted == throwOnError \/ options.default # "none"
mustThrow == throwOnError \/ options.default = "none"

\* the catch block of every stage: throw the classified error, or fall back
\* e: what the stage caught and the cause the thrown error is given
fail(stage, code, e, l) ==
  /\ failedAt' = stage
  /\ pc' = "done"
  /\ IF mustThrow
     THEN outcome' = Rejected(code) /\ caught' = e /\ log' = l /\ UNCHANGED factoryCalls
     ELSE getDefault(l) /\ caught' = NoError

load ==
  /\ pc = "ready"
  /\ factoryCalls < MaxFactoryCalls
  /\ \E p \in paths : filePath' = p
  /\ \E t \in BOOLEAN : throwOnError' = t
  /\ pc' = IF factory = "createZodYAML" THEN "getJsYaml" ELSE "readFile"
  /\ call' = "load"
  /\ outcome' = Pending
  /\ failedAt' = "none"
  /\ caught' = NoError
  /\ log' = <<>>
  /\ UNCHANGED <<config, file, other, fileContent, parsed, data, parsedData, dataVersion,
                 saveLocals, factoryCalls, saved>>

\* yaml.ts: load first awaits getJsYaml(), which imports js-yaml unless it is
\* cached; a failed import is thrown as MissingDependency or falls back
loadGetJsYaml ==
  /\ pc = "getJsYaml"
  /\ \E importOk \in BOOLEAN :
       LET l == Append(log, Call("getJsYaml", 0, Null))
       IN IF jsYamlModule \/ importOk
          THEN /\ jsYamlModule' = TRUE
               /\ pc' = "readFile"
               /\ log' = l
               /\ UNCHANGED <<outcome, failedAt, caught, factoryCalls>>
          ELSE fail("getJsYaml", "MissingDependency", NoError, l) /\ UNCHANGED jsYamlModule
  /\ UNCHANGED <<factory, paths, call, filePath, options, ctorError, sortedMigrations, defaultState, overlapping, file, other, loadLocals,
                 saveLocals, saved>>

loadReadFile_Retries ==
  /\ pc = "readFile"
  /\ log' = Append(log, Call("readFile", 0, Null))
  /\ \E ioOk \in BOOLEAN :
       IF fileAt(filePath).exists /\ ioOk
       THEN fileContent' = fileAt(filePath).text /\ pc' = "parse"
       ELSE UNCHANGED <<fileContent, pc>>
  /\ UNCHANGED <<instance, file, other, throwOnError, parsed, data, parsedData, dataVersion,
                 saveLocals, saved, outcome, failedAt, caught, factoryCalls>>
loadReadFile ==
  /\ pc = "readFile"
  /\ \E ioOk \in BOOLEAN :
       LET l == Append(log, Call("readFile", 0, Null))
       IN IF fileAt(filePath).exists /\ ioOk
          THEN /\ fileContent' = fileAt(filePath).text
               /\ pc' = "parse"
               /\ log' = l
               /\ UNCHANGED <<outcome, failedAt, caught, factoryCalls>>
          ELSE (\E k \in FsErrors : fail("readFile", "FileRead", errorOrNew(k), l))
               /\ UNCHANGED fileContent
  /\ UNCHANGED <<instance, file, other, throwOnError, parsed, data, parsedData, dataVersion,
                 saveLocals, saved>>

\* the code of a parse failure: createZodYAML's own load, or createZodStore's
parseErrorCode == IF factory = "createZodYAML" THEN "InvalidYAML" ELSE "InvalidFormat"

loadParse ==
  /\ pc = "parse"
  /\ LET l == Append(log, Call("parse", 0, Null))
     IN IF parseThrows(fileContent)
        THEN (\E k \in UserErrors : fail("parse", parseErrorCode, errorOrNew(k), l))
             /\ UNCHANGED <<parsed, data>>
        ELSE /\ parsed' = parse(fileContent)
             /\ log' = l
             /\ IF versioned
                THEN pc' = "version" /\ UNCHANGED data
                ELSE pc' = "validate" /\ data' = parsed'
             /\ UNCHANGED <<outcome, failedAt, caught, factoryCalls>>
  /\ UNCHANGED <<instance, file, other, throwOnError, fileContent, parsedData, dataVersion,
                 saveLocals, saved>>

\* typeof parsed !== 'object' || parsed === null || !('_version' in parsed)
missingVersion(p) == ~IsObject(p) \/ ~Has(p.o, "_version")
invalidVersion_NoIntegerCheck(v) == ~IsNumber(v) \/ v.n <= 0
invalidVersion(v) == ~IsNumber(v) \/ ~IsInteger(v) \/ v.n <= 0
unsupportedVersion_Never(fileVersion) == FALSE
unsupportedVersion(fileVersion) == fileVersion > currentVersion
\* const { _version: _unused, ...extractedData } = parsed
extractedData_NotStripped(p) == p
extractedData(p) == Obj(Omit(p.o, "_version"))

loadVersion ==
  /\ pc = "version"
  /\ IF missingVersion(parsed)
     THEN fail("versionMissing", "InvalidVersion", NoError, log) /\ UNCHANGED <<data, dataVersion>>
     ELSE LET versionValue == Get(parsed.o, "_version")
          IN IF invalidVersion(versionValue)
             THEN fail("versionInvalid", "InvalidVersion", NoError, log)
                    /\ UNCHANGED <<data, dataVersion>>
             ELSE IF unsupportedVersion(versionValue.n)
             THEN fail("futureVersion", "UnsupportedVersion", NoError, log)
                    /\ UNCHANGED <<data, dataVersion>>
             ELSE /\ data' = extractedData(parsed)
                  /\ dataVersion' = versionValue.n
                  /\ pc' = "lookup"
                  /\ UNCHANGED <<outcome, failedAt, caught, log, factoryCalls>>
  /\ UNCHANGED <<instance, file, other, throwOnError, fileContent, parsed, parsedData,
                 saveLocals, saved>>

\* sortedMigrations.find((m) => m.version === v)
found_Always(v) == TRUE
found(v) == \E i \in 1..Len(sortedMigrations) : sortedMigrations[i] = v

\* while (dataVersion < currentVersion)
needsMigration_OffByOne == dataVersion + 1 < currentVersion
needsMigration == dataVersion < currentVersion

\* the code of the error thrown by the migration loop's catch block
stepErrorCode_ByErrorType(isZodError) == IF isZodError THEN "Validation" ELSE "Migration"
stepErrorCode(isZodError) == "Migration"

loadLookup ==
  /\ pc = "lookup"
  /\ IF needsMigration
     THEN IF ~found(dataVersion)
          THEN fail("lookup", "Migration", NoError, log)
          ELSE pc' = "stepSchema" /\ UNCHANGED <<outcome, failedAt, caught, log, factoryCalls>>
     ELSE pc' = "validate" /\ UNCHANGED <<outcome, failedAt, caught, log, factoryCalls>>
  /\ UNCHANGED <<instance, file, other, loadLocals, saveLocals, saved>>

\* the schema of the migration step for version v
stepSchema(v) == Schema(ShapeOf(v), "step")

loadStepSchema_IgnoresFailure ==
  /\ pc = "stepSchema"
  /\ log' = Append(log, Call("stepSchema", dataVersion, data))
  /\ parsedData' = IF parseOk(stepSchema(dataVersion), data)
                   THEN parseAsync(stepSchema(dataVersion), data) ELSE data
  /\ pc' = "migrate"
  /\ UNCHANGED <<outcome, failedAt, caught, factoryCalls>>
  /\ UNCHANGED <<instance, file, other, throwOnError, fileContent, parsed, data, dataVersion,
                 saveLocals, saved>>
loadStepSchema ==
  /\ pc = "stepSchema"
  /\ LET l == Append(log, Call("stepSchema", dataVersion, data))
     IN IF parseOk(stepSchema(dataVersion), data)
        THEN /\ parsedData' = parseAsync(stepSchema(dataVersion), data)
             /\ pc' = "migrate"
             /\ log' = l
             /\ UNCHANGED <<outcome, failedAt, caught, factoryCalls>>
        ELSE (\E k \in SchemaErrors :
                fail("stepSchema", stepErrorCode(k = "ZodError"), errorOrNew(k), l))
             /\ UNCHANGED parsedData
  /\ UNCHANGED <<instance, file, other, throwOnError, fileContent, parsed, data, dataVersion,
                 saveLocals, saved>>

\* what a migrate function may do: return the next version's data (the new
\* field set to the source version), throw, return a rejected promise, return
\* its input unchanged, or return the next version's data with a _version key
MigrateOutcomes == {"returns", "throws", "rejects", "unchanged", "tagged"}
migrate(r, v, d) ==
  CASE r = "returns" -> Obj(Append(d.o, <<FieldName[v + 1], Num(v)>>))
    [] r = "tagged" -> Obj(Append(d.o, <<FieldName[v + 1], Num(v)>>) \o <<<<"_version", Num(v + 1)>>>>)
    [] OTHER -> d

loadMigrate_NoIncrement ==
  /\ pc = "migrate"
  /\ \E r \in MigrateOutcomes :
       LET l == Append(log, Call("migrate", dataVersion, parsedData))
       IN IF r \in {"throws", "rejects"}
          THEN (\E k \in UserErrors : fail("migrate", stepErrorCode(FALSE), errorOrNew(k), l))
               /\ UNCHANGED <<data, dataVersion>>
          ELSE /\ data' = migrate(r, dataVersion, parsedData)
               /\ dataVersion' = dataVersion
               /\ pc' = "lookup"
               /\ log' = l
               /\ UNCHANGED <<outcome, failedAt, caught, factoryCalls>>
  /\ UNCHANGED <<instance, file, other, throwOnError, fileContent, parsed, parsedData,
                 saveLocals, saved>>
loadMigrate ==
  /\ pc = "migrate"
  /\ \E r \in MigrateOutcomes :
       LET l == Append(log, Call("migrate", dataVersion, parsedData))
       IN IF r \in {"throws", "rejects"}
          THEN (\E k \in UserErrors : fail("migrate", stepErrorCode(FALSE), errorOrNew(k), l))
               /\ UNCHANGED <<data, dataVersion>>
          ELSE /\ data' = migrate(r, dataVersion, parsedData)
               /\ dataVersion' = dataVersion + 1
               /\ pc' = "lookup"
               /\ log' = l
               /\ UNCHANGED <<outcome, failedAt, caught, factoryCalls>>
  /\ UNCHANGED <<instance, file, other, throwOnError, fileContent, parsed, parsedData,
                 saveLocals, saved>>

loadValidate_ReturnsData ==
  /\ pc = "validate"
  /\ LET l == Append(log, Call("schema", 0, data))
     IN IF parseOk(schema, data)
        THEN /\ outcome' = Resolved(data)
             /\ pc' = "done"
             /\ log' = l
             /\ UNCHANGED <<failedAt, caught, factoryCalls>>
        ELSE \E k \in SchemaErrors : fail("validate", "Validation", zodErrorOrNew(k), l)
  /\ UNCHANGED <<instance, file, other, loadLocals, saveLocals, saved>>
loadValidate_NoCheck ==
  /\ pc = "validate"
  /\ outcome' = Resolved(data)
  /\ pc' = "done"
  /\ log' = Append(log, Call("schema", 0, data))
  /\ UNCHANGED <<failedAt, caught, factoryCalls>>
  /\ UNCHANGED <<instance, file, other, loadLocals, saveLocals, saved>>
loadValidate_WritesBack ==
  /\ pc = "validate"
  /\ LET l == Append(log, Call("schema", 0, data))
     IN IF parseOk(schema, data)
        THEN /\ outcome' = Resolved(parseAsync(schema, data))
             /\ pc' = "done"
             /\ log' = l
             /\ writeAt(filePath, File(stringify(parseAsync(schema, data), FALSE)))
             /\ UNCHANGED <<failedAt, caught, factoryCalls>>
        ELSE /\ \E k \in SchemaErrors : fail("validate", "Validation", zodErrorOrNew(k), l)
             /\ UNCHANGED <<file, other>>
  /\ UNCHANGED <<instance, loadLocals, saveLocals, saved>>
loadValidate ==
  /\ pc = "validate"
  /\ LET l == Append(log, Call("schema", 0, data))
     IN IF parseOk(schema, data)
        THEN /\ outcome' = Resolved(parseAsync(schema, data))
             /\ pc' = "done"
             /\ log' = l
             /\ UNCHANGED <<failedAt, caught, factoryCalls>>
        ELSE \E k \in SchemaErrors : fail("validate", "Validation", zodErrorOrNew(k), l)
  /\ UNCHANGED <<instance, file, other, loadLocals, saveLocals, saved>>

----------------------------------------------------------------------------
(* save                                                                    *)

\* the values handed to save: of the schema's type, or not (field a a string),
\* with or without a key the schema does not declare
SaveInputs ==
  {Obj(Fields(schema.shape, a) \o extra) :
     a \in {Num(1), Str(1)}, extra \in {<<>>, <<<<"_version", Num(1)>>>>}}

\* const { compact = false } = saveOptions ?? {}
compactOrDefault_True(o) == o # "false"
compactOrDefault(o) == o = "true"

\* saveOptions as passed; where one path is modelled the explicit false, which
\* the default makes the same as the omitted option, is left out
CompactOptions ==
  IF paths = {"p"} THEN {"omitted", "true"} ELSE {"omitted", "true", "false"}

save ==
  /\ pc = "ready"
  /\ \E p \in paths : filePath' = p
  /\ \E x \in SaveInputs, o \in CompactOptions :
       arg' = x /\ saveOptions' = o /\ compact' = compactOrDefault(o)
  /\ pc' = "encode"
  /\ call' = "save"
  /\ outcome' = Pending
  /\ failedAt' = "none"
  /\ caught' = NoError
  /\ log' = <<>>
  /\ UNCHANGED <<config, file, other, loadLocals, content, factoryCalls, saved>>

saveEncode_FallsBack ==
  /\ pc = "encode"
  /\ IF encodeOk(schema, arg)
     THEN /\ data' = encodeAsync(schema, arg)
          /\ pc' = "stringify"
          /\ log' = Append(log, Call("encode", 0, arg))
          /\ UNCHANGED <<outcome, failedAt, caught, factoryCalls>>
     ELSE /\ \E k \in SchemaErrors :
               fail("encode", "Encoding", zodErrorOrNew(k), Append(log, Call("encode", 0, arg)))
          /\ UNCHANGED data
  /\ UNCHANGED <<instance, file, other, throwOnError, fileContent, parsed, parsedData, dataVersion,
                 saveLocals, saved>>
saveEncode_WritesFirst ==
  /\ pc = "encode"
  /\ log' = Append(log, Call("encode", 0, arg))
  /\ writeAt(filePath, File(MalformedText))
  /\ IF encodeOk(schema, arg)
     THEN /\ data' = encodeAsync(schema, arg)
          /\ pc' = "stringify"
          /\ UNCHANGED <<outcome, failedAt, caught>>
     ELSE /\ outcome' = Rejected("Encoding")
          /\ failedAt' = "encode"
          /\ \E k \in SchemaErrors : caught' = zodErrorOrNew(k)
          /\ pc' = "done"
          /\ UNCHANGED data
  /\ UNCHANGED <<instance, throwOnError, fileContent, parsed, parsedData, dataVersion,
                 saveLocals, factoryCalls, saved>>
saveEncode ==
  /\ pc = "encode"
  /\ log' = Append(log, Call("encode", 0, arg))
  /\ IF encodeOk(schema, arg)
     THEN /\ data' = encodeAsync(schema, arg)
          /\ pc' = "stringify"
          /\ UNCHANGED <<outcome, failedAt, caught>>
     ELSE /\ outcome' = Rejected("Encoding")
          /\ failedAt' = "encode"
          /\ \E k \in SchemaErrors : caught' = zodErrorOrNew(k)
          /\ pc' = "done"
          /\ UNCHANGED data
  /\ UNCHANGED <<instance, file, other, throwOnError, fileContent, parsed, parsedData, dataVersion,
                 saveLocals, factoryCalls, saved>>

\* { _version: currentVersion, ...encoded }, or encoded itself
fileData_AlwaysWrapped(encoded) ==
  Obj(Spread(<<<<"_version", Num(currentVersion)>>>>,
             IF IsObject(encoded) THEN encoded.o ELSE <<>>))
fileData(encoded) ==
  IF versioned
  THEN Obj(Spread(<<<<"_version", Num(currentVersion)>>>>,
                  IF IsObject(encoded) THEN encoded.o ELSE <<>>))
  ELSE encoded

\* serializer.stringify is called outside any try block: what it throws is
\* what save rejects with
saveStringify ==
  /\ pc = "stringify"
  /\ log' = Append(log, Call("stringify", 0, fileData(data)))
  /\ \E throws \in BOOLEAN :
       IF throws
       THEN /\ outcome' = Rejected("Error")
            /\ failedAt' = "stringify"
            /\ \E k \in UserErrors : caught' = Thrown(k, "none")
            /\ pc' = "done"
            /\ UNCHANGED content
       ELSE /\ content' = stringify(fileData(data), compact)
            /\ pc' = "writeFile"
            /\ UNCHANGED <<outcome, failedAt, caught>>
  /\ UNCHANGED <<instance, file, other, loadLocals, arg, saveOptions, compact, factoryCalls, saved>>

saveWriteFile ==
  /\ pc = "writeFile"
  /\ log' = Append(log, Call("writeFile", 0, Null))
  /\ pc' = "done"
  /\ \E ioOk \in BOOLEAN :
       IF ioOk
       THEN /\ writeAt(filePath, File(content))
            /\ saved' = IF filePath = "p" THEN [valid |-> TRUE, x |-> arg] ELSE saved
            /\ outcome' = Resolved(Null)
            /\ UNCHANGED <<failedAt, caught>>
       ELSE /\ outcome' = Rejected("FileWrite")
            /\ failedAt' = "writeFile"
            /\ \E k \in FsErrors : caught' = errorOrNew(k)
            /\ UNCHANGED <<file, other, saved>>
  /\ UNCHANGED <<instance, loadLocals, saveLocals, factoryCalls>>

\* the caller takes the result; the instance is ready for the next call
return ==
  /\ pc = "done"
  /\ pc' = "ready"
  /\ call' = "none"
  /\ filePath' = ""
  /\ throwOnError' = FALSE
  /\ fileContent' = MalformedText
  /\ parsed' = Null
  /\ data' = Null
  /\ parsedData' = Null
  /\ dataVersion' = 0
  /\ arg' = Null
  /\ saveOptions' = "omitted"
  /\ compact' = FALSE
  /\ content' = MalformedText
  /\ outcome' = Pending
  /\ failedAt' = "none"
  /\ caught' = NoError
  /\ log' = <<>>
  /\ UNCHANGED <<config, file, other, factoryCalls, saved>>

Next ==
  \/ createZodStore
  \/ ExternalWrite
  \/ load
  \/ loadReadFile
  \/ loadParse
  \/ loadVersion
  \/ loadLookup
  \/ loadStepSchema
  \/ loadMigrate
  \/ loadValidate
  \/ save
  \/ saveEncode
  \/ saveStringify
  \/ saveWriteFile
  \/ return

Spec == Init /\ [][Next]_vars

----------------------------------------------------------------------------
(* The format factories: createZodJSON and createZodTOML call createZodStore *)
(* with their serializer; createZodYAML has its own copy of the constructor *)
(* and of load, which differs in getJsYaml and in the code of a parse       *)
(* failure.  FormatSpec is load under each of them.                         *)

FormatFactories == {"createZodStore", "createZodJSON", "createZodYAML", "createZodTOML"}
FormatOptions ==
  {o \in Options :
     /\ o.schema = "strip"
     /\ o.default \in {"none", "value"}
     /\ IF o.hasVersion THEN o.version = 2 /\ o.migrations = <<1>> ELSE o.migrations = <<>>}

FormatInit ==
  /\ factory \in FormatFactories
  /\ paths = {"p"}
  /\ options \in FormatOptions
  /\ Start
  /\ calls = <<>>

FormatNext ==
  \/ createZodStore
  \/ ExternalWrite
  \/ load
  \/ loadGetJsYaml
  \/ loadReadFile
  \/ loadParse
  \/ loadVersion
  \/ loadLookup
  \/ loadStepSchema
  \/ loadMigrate
  \/ loadValidate
  \/ return

FormatSpec == FormatInit /\ [][FormatNext]_vars

----------------------------------------------------------------------------
(* PathSpec: the callers pass either of two paths to load and save          *)

PathInit ==
  /\ factory = "createZodStore"
  /\ paths = {"p", "q"}
  /\ options \in FormatOptions
  /\ Start
  /\ calls = <<>>

PathSpec == PathInit /\ [][Next]_vars

----------------------------------------------------------------------------
(* DefaultSpec: the defaults nothing validates, and a caller that writes to *)
(* the object a fallback load returned.  getDefault returns defaultValue    *)
(* itself, not a copy, so that object is the one the instance holds.        *)

DefaultOptions ==
  {o \in Options :
     /\ o.default \in {"value", "factory"}
     /\ IF o.hasVersion THEN o.version = 2 /\ o.migrations = <<1>> ELSE o.migrations = <<>>}
    \cup {[o EXCEPT !.default = "invalid"] : o \in {x \in FormatOptions : x.default = "value"}}

\* what the caller may assign to the returned object: a field set to another
\* number, or a field deleted
Mutations(x) == {Obj(Put(x.o, "a", Num(5))), Obj(Omit(x.o, "a"))}

\* the caller holds the object the settled load returned through the fixed
\* default, and assigns to it
callerMutates ==
  /\ pc = "done"
  /\ call = "load"
  /\ outcome.status = "resolved" /\ outcome.default /\ outcome.ref = 0
  /\ \E m \in Mutations(defaultState) :
       /\ defaultState' = m
       /\ outcome' = [outcome EXCEPT !.value = m]
  /\ UNCHANGED <<factory, jsYamlModule, paths, pc, call, filePath, options, ctorError,
                 sortedMigrations, overlapping, file, other, loadLocals, saveLocals, failedAt, caught, log,
                 factoryCalls, saved>>

DefaultInit ==
  /\ factory = "createZodStore"
  /\ paths = {"p"}
  /\ options \in DefaultOptions
  /\ Start
  /\ calls = <<>>

DefaultNext == Next \/ callerMutates

DefaultSpec == DefaultInit /\ [][DefaultNext]_vars

----------------------------------------------------------------------------
(* ConcurrentSpec: calls invoked without awaiting one another.  Each call   *)
(* runs the same code as above on locals of its own and the calls take      *)
(* their steps in any order; they meet in the file, in the default factory  *)
(* and in the instance's configuration, which no call changes.              *)

ConcurrentOptions ==
  {o \in Options :
     /\ o.schema = "strip"
     /\ o.default \in {"value", "factory"}
     /\ IF o.hasVersion THEN o.version = 2 /\ o.migrations = <<1>> ELSE o.migrations = <<>>}

\* no file, and two files at version 1 with different data; saves add files
\* at the current version, and empty and mixed ones
ConcurrentFiles ==
  {NoFile,
   File(Text(Obj(<<<<"_version", Num(1)>>>> \o Fields(ShapeOf(1), Num(1))), FALSE)),
   File(Text(Obj(<<<<"_version", Num(1)>>>> \o Fields(ShapeOf(1), Str(1))), FALSE))}

\* the length of a text: more keys make it longer, indentation makes it longer
Size(text) ==
  IF ~IsObject(text.doc) THEN 0
  ELSE 2 * (Len(text.doc.o) + 1) + (IF text.compact THEN 0 ELSE 1)
\* fs.writeFile is open (O_TRUNC), write at offset 0, close, and two of them on
\* one path are not ordered against each other.  An open leaves the file
\* empty; a write over a longer text that another write put there since the
\* open leaves the tail of that text behind the new one
EmptyText == MalformedText
Overwrite_FirstStays(old, new) == IF Size(old) > 0 THEN old ELSE new
Overwrite(old, new) ==
  IF Size(old) > Size(new)
  THEN [malformed |-> TRUE, compact |-> old.compact, doc |-> old.doc]
  ELSE new

InFlight == {j \in Slots : calls[j].op # "none" /\ calls[j].pc # "done"}
\* slot i is the next call to be invoked
NextSlot(i) ==
  /\ pc = "ready"
  /\ calls[i].op = "none"
  /\ \A j \in Slots : j < i => calls[j].op # "none"
\* the call in slot i is suspended at the await p
At(i, p) == pc = "ready" /\ calls[i].pc = p
Becomes(i, c) == calls' = [calls EXCEPT ![i] = c]
Private == UNCHANGED <<factory, paths, pc, call, filePath, options, ctorError,
                       sortedMigrations, defaultState, other, loadLocals, saveLocals, outcome,
                       failedAt, caught, log, saved>>
Frame == Private /\ UNCHANGED jsYamlModule

\* yaml.ts: load and save begin with getJsYaml(), which runs up to its await
\* of import('js-yaml') unless the module is cached
mustImport == factory = "createZodYAML" /\ ~jsYamlModule
Enters(op, c) ==
  [c EXCEPT !.op = op, !.overlaps = InFlight, !.attempted = mustImport,
            !.pc = IF mustImport THEN "import" ELSE IF op = "load" THEN "readFile" ELSE "encode"]

\* a stage of load threw the error with this code
Throws(c, code) == [c EXCEPT !.pc = "catch", !.code = code]

\* getDefault() for the call with locals c
callGetDefault(i, c) ==
  CASE options.default = "none" ->
         Becomes(i, [c EXCEPT !.outcome = Rejected("Error")]) /\ UNCHANGED factoryCalls
    [] options.default \in FixedDefaults ->
         Becomes(i, [c EXCEPT !.outcome = Defaulted(defaultState, 0)]) /\ UNCHANGED factoryCalls
    [] options.default = "factory" ->
         /\ factoryCalls' = factoryCalls + 1
         /\ Becomes(i, [c EXCEPT !.outcome = Defaulted(defaultValue, factoryCalls + 1)])
    [] options.default = "throwing" ->
         /\ factoryCalls' = factoryCalls + 1
         /\ Becomes(i, [c EXCEPT !.outcome = Rejected("Error")])

\* the call runs on to its next await, c, or into the catch block of the
\* stage that threw: throw the classified error, or fall back
Continue(i, c) ==
  IF c.pc # "catch"
  THEN Becomes(i, c) /\ UNCHANGED factoryCalls
  ELSE IF c.throwOnError \/ options.default = "none"
       THEN Becomes(i, [c EXCEPT !.pc = "done", !.outcome = Rejected(c.code)])
              /\ UNCHANGED factoryCalls
       ELSE callGetDefault(i, [c EXCEPT !.pc = "done"])

\* the code between two awaits runs without interruption: the loop test and
\* the lookup of the step, up to the await of the step's or the final schema
callLookup(c) ==
  IF c.dataVersion < currentVersion
  THEN IF ~found(c.dataVersion) THEN Throws(c, "Migration") ELSE [c EXCEPT !.pc = "stepSchema"]
  ELSE [c EXCEPT !.pc = "validate"]

callVersion(c) ==
  IF missingVersion(c.parsed) THEN Throws(c, "InvalidVersion")
  ELSE IF invalidVersion(Get(c.parsed.o, "_version")) THEN Throws(c, "InvalidVersion")
  ELSE IF unsupportedVersion(Get(c.parsed.o, "_version").n) THEN Throws(c, "UnsupportedVersion")
  ELSE callLookup([c EXCEPT !.data = extractedData(c.parsed),
                            !.dataVersion = Get(c.parsed.o, "_version").n])

callParse(c) ==
  IF parseThrows(c.fileContent) THEN Throws(c, parseErrorCode)
  ELSE IF versioned
       THEN callVersion([c EXCEPT !.parsed = parse(c.fileContent)])
       ELSE [c EXCEPT !.parsed = parse(c.fileContent), !.data = parse(c.fileContent),
                      !.pc = "validate"]

callLoad(i) ==
  /\ NextSlot(i)
  /\ \E t \in BOOLEAN :
       Becomes(i, Enters("load", [Idle EXCEPT !.throwOnError = t]))
  /\ UNCHANGED <<file, written, factoryCalls>>
  /\ Frame

\* yaml.ts: await import('js-yaml') settles; the module is cached, or load's
\* catch throws MissingDependency or falls back, and save rejects with it
callImport_CachesFailure(i) ==
  /\ At(i, "import")
  /\ jsYamlModule' = TRUE
  /\ LET c == calls[i]
     IN \E importOk \in BOOLEAN :
          IF importOk
          THEN Continue(i, [c EXCEPT !.imported = TRUE,
                                     !.pc = IF c.op = "load" THEN "readFile" ELSE "encode"])
          ELSE IF c.op = "load"
               THEN Continue(i, Throws(c, "MissingDependency"))
               ELSE Continue(i, [c EXCEPT !.outcome = Rejected("MissingDependency"), !.pc = "done"])
  /\ UNCHANGED <<file, written>>
  /\ Private
callImport(i) ==
  /\ At(i, "import")
  /\ LET c == calls[i]
     IN \E importOk \in BOOLEAN :
          IF importOk
          THEN /\ jsYamlModule' = TRUE
               /\ Continue(i, [c EXCEPT !.imported = TRUE,
                                        !.pc = IF c.op = "load" THEN "readFile" ELSE "encode"])
          ELSE /\ UNCHANGED jsYamlModule
               /\ IF c.op = "load"
                  THEN Continue(i, Throws(c, "MissingDependency"))
                  ELSE Continue(i, [c EXCEPT !.outcome = Rejected("MissingDependency"),
                                             !.pc = "done"])
  /\ UNCHANGED <<file, written>>
  /\ Private

\* await fs.readFile settles
callReadFile(i) ==
  /\ At(i, "readFile")
  /\ \E ioOk \in BOOLEAN :
       IF file.exists /\ ioOk
       THEN Continue(i, callParse([calls[i] EXCEPT !.fileContent = file.text, !.readOk = TRUE]))
       ELSE Continue(i, Throws(calls[i], "FileRead"))
  /\ UNCHANGED <<file, written>>
  /\ Frame

\* await migration.schema.parseAsync settles; migrate is called
callStepSchema(i) ==
  /\ At(i, "stepSchema")
  /\ LET c == calls[i]
     IN IF parseOk(stepSchema(c.dataVersion), c.data)
        THEN Continue(i, [c EXCEPT !.parsedData = parseAsync(stepSchema(c.dataVersion), c.data),
                                   !.pc = "migrate"])
        ELSE Continue(i, Throws(c, stepErrorCode(TRUE)))
  /\ UNCHANGED <<file, written>>
  /\ Frame

\* what the migrate functions of overlapping calls do
ConcurrentOutcomes == {"returns", "throws"}

callMigrate_SharedData(i) ==
  /\ At(i, "migrate")
  /\ \E r \in ConcurrentOutcomes :
       LET c == [calls[i] EXCEPT !.answers = Append(@, r)]
           d == migrate(r, c.dataVersion, c.parsedData)
       IN IF r \in {"throws", "rejects"}
          THEN Continue(i, Throws(c, stepErrorCode(FALSE)))
          ELSE /\ calls' = [j \in Slots |->
                              IF j = i
                              THEN callLookup([c EXCEPT !.data = d, !.dataVersion = c.dataVersion + 1])
                              ELSE [calls[j] EXCEPT !.data = d]]
               /\ callLookup([c EXCEPT !.data = d, !.dataVersion = c.dataVersion + 1]).pc # "catch"
               /\ UNCHANGED factoryCalls
  /\ UNCHANGED <<file, written>>
  /\ Frame
\* await Promise.resolve(migrationResult) settles
callMigrate(i) ==
  /\ At(i, "migrate")
  /\ \E r \in ConcurrentOutcomes :
       LET c == [calls[i] EXCEPT !.answers = Append(@, r)]
       IN IF r \in {"throws", "rejects"}
          THEN Continue(i, Throws(c, stepErrorCode(FALSE)))
          ELSE Continue(i, callLookup([c EXCEPT !.data = migrate(r, c.dataVersion, c.parsedData),
                                                !.dataVersion = c.dataVersion + 1]))
  /\ UNCHANGED <<file, written>>
  /\ Frame

\* await schema.parseAsync settles
callValidate(i) ==
  /\ At(i, "validate")
  /\ LET c == calls[i]
     IN IF parseOk(schema, c.data)
        THEN Continue(i, [c EXCEPT !.outcome = Resolved(parseAsync(schema, c.data)),
                                   !.pc = "done"])
        ELSE Continue(i, Throws(c, "Validation"))
  /\ UNCHANGED <<file, written>>
  /\ Frame

\* the values handed to overlapping saves, and the compact option
ConcurrentInputs ==
  {<<Obj(Fields(schema.shape, Num(1))), "omitted">>,
   <<Obj(Fields(schema.shape, Num(2))), "true">>,
   <<Obj(Fields(schema.shape, Str(1))), "omitted">>}

callSave(i) ==
  /\ NextSlot(i)
  /\ \E in \in ConcurrentInputs :
       Becomes(i, Enters("save", [Idle EXCEPT !.x = in[1], !.compact = compactOrDefault(in[2])]))
  /\ UNCHANGED <<file, written, factoryCalls>>
  /\ Frame

\* await schema.encodeAsync settles; the wrap, stringify and the call of
\* fs.writeFile follow without an await
callEncode(i) ==
  /\ At(i, "encode")
  /\ LET c == calls[i]
     IN IF encodeOk(schema, c.x)
        THEN \E throws \in BOOLEAN :
               IF throws
               THEN Becomes(i, [c EXCEPT !.data = encodeAsync(schema, c.x),
                                         !.outcome = Rejected("Error"), !.pc = "done"])
               ELSE Becomes(i, [c EXCEPT !.data = encodeAsync(schema, c.x),
                                         !.content = stringify(fileData(encodeAsync(schema, c.x)),
                                                               c.compact),
                                         !.pc = "writeFile"])
        ELSE Becomes(i, [c EXCEPT !.outcome = Rejected("Encoding"), !.pc = "done"])
  /\ UNCHANGED <<file, written, factoryCalls>>
  /\ Frame

\* fs.writeFile, first half: open the path for writing, which empties the file
callOpen(i) ==
  /\ At(i, "writeFile")
  /\ \E ioOk \in BOOLEAN :
       IF ioOk
       THEN /\ file' = File(EmptyText)
            /\ Becomes(i, [calls[i] EXCEPT !.pc = "write"])
       ELSE /\ Becomes(i, [calls[i] EXCEPT !.outcome = Rejected("FileWrite"), !.pc = "done"])
            /\ UNCHANGED file
  /\ UNCHANGED <<written, factoryCalls>>
  /\ Frame

\* fs.writeFile, second half: write the text from the start of the file; the
\* promise of writeFile resolves
callWrite(i) ==
  /\ At(i, "write")
  /\ file' = File(Overwrite(file.text, calls[i].content))
  /\ written' = Append(written, i)
  /\ Becomes(i, [calls[i] EXCEPT !.outcome = Resolved(Null), !.pc = "done"])
  /\ UNCHANGED factoryCalls
  /\ Frame

\* another program replaces the file, before any save of this instance
fileChanges ==
  /\ pc = "ready"
  /\ \A j \in Slots : calls[j].op # "save"
  /\ \E f \in ConcurrentFiles : file' = f
  /\ UNCHANGED <<calls, written, factoryCalls>>
  /\ Frame

ConcurrentInit ==
  /\ factory = "createZodStore"
  /\ paths = {"p"}
  /\ options \in ConcurrentOptions
  /\ Start
  /\ calls = [i \in Slots |-> Idle]

ConcurrentNext ==
  \/ createZodStore
  \/ fileChanges
  \/ \E i \in Slots :
       \/ callLoad(i)
       \/ callReadFile(i)
       \/ callStepSchema(i)
       \/ callMigrate(i)
       \/ callValidate(i)
       \/ callSave(i)
       \/ callEncode(i)
       \/ callOpen(i)
       \/ callWrite(i)

ConcurrentSpec == ConcurrentInit /\ [][ConcurrentNext]_vars

\* YamlSpec: the same calls on an instance made by createZodYAML, whose load and
\* save share the module-level jsYamlModule of yaml.ts
YamlOptions == {o \in ConcurrentOptions : o.default = "value"}

YamlInit ==
  /\ factory = "createZodYAML"
  /\ paths = {"p"}
  /\ options \in YamlOptions
  /\ Start
  /\ calls = [i \in Slots |-> Idle]

YamlNext == ConcurrentNext \/ \E i \in Slots : callImport(i)

YamlSpec == YamlInit /\ [][YamlNext]_vars

----------------------------------------------------------------------------
(* LiveSpec: every awaited collaborator settles, so a load in flight takes  *)
(* its next step                                                           *)

FullChain == [i \in 1..(MaxVersion - 1) |-> i]
LiveOptions ==
  {o \in Options :
     /\ o.schema = "strip"
     /\ o.default = "value"
     /\ IF o.hasVersion
        THEN o.version = MaxVersion /\ o.migrations \in {<<>>, FullChain}
        ELSE o.migrations = <<>>}

LiveInit ==
  /\ factory = "createZodStore"
  /\ paths = {"p"}
  /\ options \in LiveOptions
  /\ Start
  /\ calls = <<>>

loadStep ==
  \/ loadReadFile
  \/ loadParse
  \/ loadVersion
  \/ loadLookup
  \/ loadStepSchema
  \/ loadMigrate
  \/ loadValidate

LiveSpec == LiveInit /\ [][Next]_vars /\ WF_vars(loadStep)

----------------------------------------------------------------------------
(* Properties                                                              *)

LoadDone == pc = "done" /\ call = "load"
\* the call has parsed the file
Parsed ==
  /\ call = "load"
  /\ pc \in {"version", "lookup", "stepSchema", "migrate", "validate", "done"}
  /\ failedAt \notin {"readFile", "parse"}
Throwing == throwOnError \/ options.default = "none"
FellBack == log # <<>> /\ log[Len(log)][1] = "getDefault"
Invoked(ops) == \E i \in 1..Len(log) : log[i][1] \in ops
MigrateLog == SelectSeq(log, LAMBDA e : e[1] = "migrate")

DeclaresVersion(p) == IsObject(p) /\ Has(p.o, "_version")
PositiveInteger(v) == v.t = "number" /\ v.n > 0
FileVersion == Get(parsed.o, "_version").n

\* the code each stage's failure is classified with
StageCode(stage) ==
  CASE stage = "readFile" -> "FileRead"
    [] stage = "parse" -> "InvalidFormat"
    [] stage \in {"versionMissing", "versionInvalid"} -> "InvalidVersion"
    [] stage = "futureVersion" -> "UnsupportedVersion"
    [] stage \in {"lookup", "stepSchema", "migrate"} -> "Migration"
    [] stage = "validate" -> "Validation"

\* C1 --------------------------------------------------------------------
OlderFile ==
  /\ Parsed /\ versioned /\ DeclaresVersion(parsed)
  /\ PositiveInteger(Get(parsed.o, "_version"))
  /\ FileVersion < currentVersion
StepsSucceeded == pc = "done" /\ failedAt \notin {"stepSchema", "migrate"}
\* the migrate functions invoked are those of steps k, ..., V-1, in that order
AllStepsRun ==
  [i \in 1..Len(MigrateLog) |-> MigrateLog[i][2]]
    = [i \in 1..(currentVersion - FileVersion) |-> FileVersion + i - 1]
\* each migrate function is handed what its own step's schema made of the data
StepValidatedFirst ==
  \A i \in 1..Len(log) :
    log[i][1] = "migrate" =>
      /\ i > 1
      /\ log[i - 1][1] = "stepSchema"
      /\ log[i - 1][2] = log[i][2]
      /\ parseOk(stepSchema(log[i][2]), log[i - 1][3])
      /\ log[i][3] = parseAsync(stepSchema(log[i][2]), log[i - 1][3])

\* C1 as stated: a load of a file at version k < V in which no step's
\* validation and no migrate function fails invokes exactly the migrate
\* functions of steps k..V-1, ascending, each once, each after its schema.
C1_Original == (OlderFile /\ StepsSucceeded) => (AllStepsRun /\ StepValidatedFirst)

\* C1 (amended): the same, for an instance constructed with a non-empty
\* migration list.
C1_MigrationOrder ==
  (OlderFile /\ StepsSucceeded /\ options.migrations # <<>>)
    => (AllStepsRun /\ StepValidatedFirst)
C1_Witness ==
  /\ OlderFile /\ StepsSucceeded /\ options.migrations # <<>>
  /\ outcome.status = "resolved" /\ ~outcome.default
  /\ Len(MigrateLog) >= 2

C3_Rejects ==
  (LoadDone /\ failedAt # "none" /\ Throwing)
    => outcome = Rejected(StageCode(failedAt))
C3_Witness ==
  /\ LoadDone /\ failedAt = "validate" /\ throwOnError
  /\ options.default = "value"
  /\ outcome = Rejected("Validation")

\* C4 --------------------------------------------------------------------
Returned == pc \notin {"new", "threw"}
\* the supplied versions are exactly 1, ..., V-1, each once, in any order
ExactChain ==
  /\ options.hasVersion
  /\ Len(options.migrations) = Cardinality(1..(options.version - 1))
  /\ {options.migrations[i] : i \in 1..Len(options.migrations)} = 1..(options.version - 1)

\* C4 as stated: createZodStore returns an instance exactly when the supplied
\* versions are 1..V-1 for the configured V (no migrations when no version
\* is configured), and throws for every other list.
C4_Original ==
  pc # "new" =>
    (Returned <=> IF options.hasVersion THEN ExactChain ELSE options.migrations = <<>>)

\* C4 (amended): createZodStore returns an instance exactly when the list is
\* empty or its versions are 1..V-1 for the configured V; for every other
\* list it throws, and no call is ever made on an instance.
C4_ChainValidation ==
  /\ pc # "new" => (Returned <=> (options.migrations = <<>> \/ ExactChain))
  /\ pc = "threw" => (ctorError # "none" /\ call = "none" /\ sortedMigrations = <<>>)
C4_Witness == pc = "ready" /\ options.migrations = <<2, 1>> /\ sortedMigrations = <<1, 2>>

\* C5 --------------------------------------------------------------------
\* the parsed file declares an integer version above the instance's
FutureFile ==
  /\ Parsed /\ versioned /\ DeclaresVersion(parsed)
  /\ Get(parsed.o, "_version").t = "number"
  /\ FileVersion > currentVersion

\* C5: a load of a file whose _version is an integer greater than
\* currentVersion fails with UnsupportedVersion (or falls back to the
\* default) and invokes no migration-step schema, no migrate function and
\* not the current schema.
C5_FutureVersion ==
  FutureFile =>
    /\ pc \in {"version", "done"}
    /\ ~Invoked({"stepSchema", "migrate", "schema"})
    /\ pc = "done" =>
         /\ failedAt = "futureVersion"
         /\ IF Throwing THEN outcome = Rejected("UnsupportedVersion") ELSE FellBack

\* C6 --------------------------------------------------------------------
\* the parsed value is not an object, lacks _version, or its _version is
\* not a number, not an integer, or <= 0
BadVersion(p) ==
  \/ ~IsObject(p)
  \/ ~Has(p.o, "_version")
  \/ Get(p.o, "_version").t \notin {"number", "fraction"}
  \/ Get(p.o, "_version").t = "fraction"
  \/ Get(p.o, "_version").n <= 0

\* C6: in versioned mode a load whose parsed value carries no valid
\* _version fails with InvalidVersion (or falls back to the default) without
\* invoking any migration step or any schema.
C6_InvalidVersion ==
  (Parsed /\ versioned /\ BadVersion(parsed)) =>
    /\ pc \in {"version", "done"}
    /\ ~Invoked({"stepSchema", "migrate", "schema"})
    /\ pc = "done" =>
         /\ failedAt \in {"versionMissing", "versionInvalid"}
         /\ IF Throwing THEN outcome = Rejected("InvalidVersion") ELSE FellBack
C6_Witness ==
  /\ LoadDone /\ versioned /\ DeclaresVersion(parsed)
  /\ Get(parsed.o, "_version") = Fraction
  /\ outcome = Rejected("InvalidVersion")

\* C7 --------------------------------------------------------------------
\* the stages in order: readFile 1, parse 2, _version presence 3, _version
\* validity 4, future-version check 5, migration 6, final validation 7
StageRank(stage) ==
  CASE stage = "readFile" -> 1
    [] stage = "parse" -> 2
    [] stage = "versionMissing" -> 3
    [] stage = "versionInvalid" -> 4
    [] stage = "futureVersion" -> 5
    [] stage \in {"lookup", "stepSchema", "migrate"} -> 6
    [] stage = "validate" -> 7
OpRank(op) ==
  CASE op = "readFile" -> 1
    [] op = "parse" -> 2
    [] op \in {"stepSchema", "migrate"} -> 6
    [] op = "schema" -> 7
    [] OTHER -> 0
\* the first check that the content of the file fails (8: none of them)
FirstBadCheck ==
  LET doc == file.text.doc
  IN IF file.text.malformed THEN 2
     ELSE IF ~versioned THEN 8
     ELSE IF ~DeclaresVersion(doc) THEN 3
     ELSE IF BadVersion(doc) THEN 4
     ELSE IF Get(doc.o, "_version").n > currentVersion THEN 5
     ELSE 8

\* C7: a failed load is classified by the earliest failing stage, gets one
\* classification, and invokes no collaborator of a later stage.
C7_EarliestStage ==
  (LoadDone /\ failedAt # "none") =>
    /\ StageRank(failedAt) \in
         (IF FirstBadCheck < 8 THEN {1, FirstBadCheck} ELSE {1, 6, 7})
    /\ \A i \in 1..Len(log) : OpRank(log[i][1]) <= StageRank(failedAt)
    /\ \A i, j \in 1..Len(log) :
         (i < j /\ log[j][1] # "getDefault") => OpRank(log[i][1]) <= OpRank(log[j][1])
    /\ \A i \in 1..Len(log) : log[i][1] = "getDefault" => i = Len(log)
    /\ outcome.status = "rejected" => outcome.code \in {StageCode(failedAt), "Error"}
    /\ Throwing => outcome = Rejected(StageCode(failedAt))
C7_Witness ==
  /\ LoadDone /\ failedAt = "validate" /\ MigrateLog # <<>>
  /\ outcome = Rejected("Validation")

\* C8 --------------------------------------------------------------------
\* C8: a load that fails in a migration step's schema or migrate function is
\* classified Migration, never Validation.
C8_MigrationCode ==
  (LoadDone /\ failedAt \in {"stepSchema", "migrate"}) =>
    /\ outcome.code # "Validation"
    /\ Throwing => outcome = Rejected("Migration")
    /\ ~Invoked({"schema"})
C8_Witness ==
  /\ LoadDone /\ failedAt = "stepSchema"
  /\ log[Len(log)][1] = "stepSchema"
  /\ outcome = Rejected("Migration")

\* C9 --------------------------------------------------------------------
\* C9: save(x, p) followed by load(p) resolves to a value equal to x, for
\* every x of the schema's type, in versioned and in unversioned mode (the
\* file being readable).
C9_RoundTrip ==
  (LoadDone /\ saved.valid /\ IsTyped(schema, saved.x) /\ failedAt # "readFile")
    => /\ outcome.status = "resolved"
       /\ ~outcome.default
       /\ SameValue(outcome.value, saved.x)

\* C10 -------------------------------------------------------------------
\* C10 as stated: the value a successful load resolves to never contains a
\* _version field.
C10_Original ==
  (LoadDone /\ outcome.status = "resolved" /\ ~outcome.default)
    => ~Has(outcome.value.o, "_version")

\* the first schema the call handed data to
FirstValidation(i) ==
  /\ log[i][1] \in {"stepSchema", "schema"}
  /\ \A j \in 1..(i - 1) : log[j][1] \notin {"stepSchema", "schema"}

\* C10 (amended): in versioned mode the payload load extracts from the file,
\* the data handed to the first migration step's schema or to the current
\* schema when no migration runs, never contains a _version field.
C10_VersionStripped ==
  (call = "load" /\ versioned) =>
    /\ \A i \in 1..Len(log) : FirstValidation(i) => ~Has(log[i][3].o, "_version")
    /\ pc \in {"lookup", "stepSchema", "migrate", "validate"} /\ MigrateLog = <<>>
         => ~Has(data.o, "_version")
C10_Witness ==
  /\ LoadDone /\ versioned /\ options.schema = "loose"
  /\ outcome.status = "resolved" /\ ~outcome.default
  /\ MigrateLog = <<>>
  /\ Has(parsed.o, "_version")
  /\ ~Has(outcome.value.o, "_version")

\* C11 -------------------------------------------------------------------
\* the value save handed to serializer.stringify
Stringified == log[Len(log)][3]
SaveStringified == call = "save" /\ log # <<>> /\ log[Len(log)][1] = "stringify"

\* C11: in versioned mode the value save passes to the serializer is an
\* object whose first key is _version, whose _version equals currentVersion,
\* and whose remaining fields are exactly the schema-encoded fields.
C11_VersionWrap ==
  (SaveStringified /\ versioned) =>
    /\ IsObject(Stringified)
    /\ Stringified.o # <<>>
    /\ Head(Stringified.o) = <<"_version", Num(currentVersion)>>
    /\ Tail(Stringified.o) = encodeAsync(schema, arg).o

\* C12 -------------------------------------------------------------------
\* C12: in non-versioned mode the value save passes to the serializer is
\* exactly the schema-encoded value: no _version key is added and nothing is
\* wrapped.
C12_Unwrapped ==
  (SaveStringified /\ ~versioned) =>
    /\ Stringified = encodeAsync(schema, arg)
    /\ Has(Stringified.o, "_version") => Has(arg.o, "_version")
C12_Witness ==
  /\ SaveStringified /\ ~versioned
  /\ options.schema = "codec"
  /\ Stringified = Obj(<<<<"a", Str(1)>>>>)

\* C13 -------------------------------------------------------------------
SaveDone == pc = "done" /\ call = "save"

\* C13: save has no fallback: whenever schema encoding fails or the file
\* write fails, save rejects (Encoding, FileWrite) even when a default is
\* configured, and save never invokes or returns the default.
C13_NoFallback ==
  /\ call = "save" => ~Invoked({"getDefault"}) /\ ~outcome.default
  /\ SaveDone =>
       /\ ~encodeOk(schema, arg) => outcome = Rejected("Encoding")
       /\ failedAt = "encode" => outcome = Rejected("Encoding")
       /\ failedAt = "writeFile" => outcome = Rejected("FileWrite")
C13_Witness ==
  /\ SaveDone
  /\ options.default = "factory"
  /\ failedAt = "writeFile"
  /\ outcome = Rejected("FileWrite")
  /\ factoryCalls = 0

\* C14 -------------------------------------------------------------------
\* the step that settles a load
LoadSettles == call = "load" /\ pc # "done" /\ pc' = "done"
HasFactory == options.default \in {"factory", "throwing"}

\* C14: a default factory is invoked exactly once by each load call that
\* falls back to the default, and zero times by a load that succeeds or that
\* rejects with its classified error; consecutive fallback loads each get a
\* freshly produced value (one no earlier call was given).
C14_FactoryStep ==
  /\ factoryCalls' # factoryCalls => LoadSettles /\ HasFactory
  /\ (LoadSettles /\ HasFactory) =>
       /\ factoryCalls' =
            IF failedAt' # "none" /\ ~mustThrow THEN factoryCalls + 1 ELSE factoryCalls
       /\ outcome'.default => outcome'.ref = factoryCalls + 1
CurrentFile ==
  /\ LoadDone /\ versioned /\ Parsed
  /\ DeclaresVersion(parsed)
  /\ Get(parsed.o, "_version") = Num(currentVersion)

\* C15: a load of a file whose _version equals currentVersion invokes no
\* migrate function and no migration-step schema, and passes the file's
\* fields minus _version unchanged to the current schema.
C15_CurrentVersion ==
  CurrentFile =>
    /\ ~Invoked({"migrate", "stepSchema"})
    /\ \E i \in 1..Len(log) : log[i] = Call("schema", 0, Obj(Omit(parsed.o, "_version")))

\* C16 -------------------------------------------------------------------
\* C16: every rejection of load or of save is a ZodStoreError whose code is
\* one of the ErrorCode values: no other error type escapes, whatever the
\* serializer, the schemas, the migrations or the default factory do.
C16_OnlyZodStoreError ==
  (pc = "done" /\ outcome.status = "rejected") => outcome.code \in ErrorCode

\* C17 -------------------------------------------------------------------
\* the orders in which the same migration steps can be supplied
Reorderings(m) ==
  {[i \in 1..Len(m) |-> m[f[i]]] :
     f \in {g \in [1..Len(m) -> 1..Len(m)] :
              \A i, j \in 1..Len(m) : g[i] = g[j] => i = j}}
Ascending(l) == \A i \in 2..Len(l) : l[i][2] = l[i - 1][2] + 1

\* C17: construction and every later load behave identically for any
\* permutation of the same migration list: construction throws the same
\* error or keeps the same sorted chain, which is all load reads of the list,
\* and steps always run in ascending version order regardless of the order
\* supplied.
C17_PermutationInvariant ==
  /\ pc \in {"ready", "threw"} =>
       \A m \in Reorderings(options.migrations) :
         /\ chainError(sortMigrations(m), versioned, currentVersion) = ctorError
         /\ Returned => sortMigrations(m) = sortedMigrations
  /\ call = "load" => Ascending(MigrateLog)
C17_Witness ==
  /\ LoadDone
  /\ options.migrations = <<2, 1>>
  /\ Len(MigrateLog) = 2
  /\ MigrateLog[1][2] = 1 /\ MigrateLog[2][2] = 2
  /\ outcome.status = "resolved" /\ ~outcome.default

\* C18 -------------------------------------------------------------------
\* what a migrate function that settles may resolve to, for step v and input d
MigrateResults(v, d) == {migrate(r, v, d) : r \in MigrateOutcomes \ {"throws", "rejects"}}

\* entry i of the log is a migrate call handed the output of its step's schema
ReceivesValidated(i) ==
  /\ i > 1
  /\ log[i - 1][1] = "stepSchema"
  /\ log[i - 1][2] = log[i][2]
  /\ parseOk(stepSchema(log[i][2]), log[i - 1][3])
  /\ log[i][3] = parseAsync(stepSchema(log[i][2]), log[i - 1][3])

\* the validation that follows the migrate call at entry i, if the call goes
\* on, is the next step's schema, or the current schema after the last step,
\* and is handed what migrate resolved to
ResultValidatedNext(i) ==
  (i < Len(log) /\ log[i + 1][1] # "getDefault") =>
    /\ log[i + 1][1] = IF log[i][2] + 1 < currentVersion THEN "stepSchema" ELSE "schema"
    /\ log[i + 1][1] = "stepSchema" => log[i + 1][2] = log[i][2] + 1
    /\ log[i + 1][3] \in MigrateResults(log[i][2], log[i][3])

\* C18: during a multi-step migration each step's migrate function receives
\* the output of validating the current data with that step's schema, and its
\* awaited result becomes the data validated by the next step's schema, or by
\* the current schema after the last step; no migrate result reaches the
\* caller without passing one of these validations.
C18_ValidatedChain ==
  call = "load" =>
    /\ \A i \in 1..Len(log) :
         log[i][1] = "migrate" => ReceivesValidated(i) /\ ResultValidatedNext(i)
    /\ (LoadDone /\ outcome.status = "resolved" /\ ~outcome.default) =>
         /\ log[Len(log)][1] = "schema"
         /\ parseOk(schema, log[Len(log)][3])
         /\ outcome.value = parseAsync(schema, log[Len(log)][3])
C18_Witness ==
  /\ LoadDone
  /\ Len(MigrateLog) = 2
  /\ outcome.status = "resolved" /\ ~outcome.default
  /\ options.schema = "strip"
  /\ \E i \in 1..Len(log) : log[i][1] = "schema" /\ Has(log[i][3].o, "_version")
  /\ ~Has(outcome.value.o, "_version")

\* C19 -------------------------------------------------------------------
\* C19: for every format factory (createZodStore with any serializer,
\* createZodJSON, createZodYAML, createZodTOML), a load whose parse step
\* throws on the file text is classified InvalidFormat.
C19_InvalidFormat ==
  (LoadDone /\ failedAt = "parse" /\ Throwing) => outcome = Rejected("InvalidFormat")

\* C20 -------------------------------------------------------------------
\* the call rejected with an error the instance made at a failed stage
RejectedAtStage ==
  pc = "done" /\ outcome.status = "rejected" /\ failedAt \notin {"none", "stringify"}

\* C20: whenever load or save rejects because an underlying operation (file
\* read, file write, parse, migration-step validation, migrate function,
\* final validation, encode) threw an Error object e, the rejection's cause
\* is e itself; rejections with no underlying error (missing or invalid
\* _version, unsupported version, migration not found) carry no cause.
C20_CausePreserved ==
  RejectedAtStage =>
    /\ caught.thrown \in {"ZodError", "Error"} => caught.cause = "e"
    /\ failedAt \in {"versionMissing", "versionInvalid", "futureVersion", "lookup"}
         => caught.cause = "none"

\* C21 -------------------------------------------------------------------
\* the value the call handed to serializer.stringify
StringifyArg == (SelectSeq(log, LAMBDA e : e[1] = "stringify"))[1][3]
OtherPath(p) == IF p = "p" THEN "q" ELSE "p"

\* C21: save forwards its compact option unchanged to serializer.stringify,
\* passing false when the option is omitted, and writes exactly the string
\* stringify returned to the given path (and to no other).
C21_Step ==
  /\ (call = "save" /\ pc = "writeFile") =>
       content = stringify(StringifyArg, saveOptions = "true")
  /\ (pc = "writeFile" /\ outcome'.status = "resolved") =>
       /\ fileAt(filePath)' = File(stringify(StringifyArg, saveOptions = "true"))
       /\ fileAt(OtherPath(filePath))' = fileAt(OtherPath(filePath))
C21_CompactForwarded == [][C21_Step]_vars
C21_Witness ==
  /\ SaveDone /\ outcome.status = "resolved"
  /\ filePath = "q"
  /\ saveOptions = "omitted"
  /\ other = File(Text(StringifyArg, FALSE))
  /\ file # other

\* C22 -------------------------------------------------------------------
\* the load is in its migration loop, or has left it for the final validation
InLoop == call = "load" /\ versioned /\ pc \in {"lookup", "stepSchema", "migrate", "validate"}

\* the loop has completed as many iterations as migrate calls have returned,
\* each of which raised the data version by one
LoopBound ==
  /\ (call = "load" /\ versioned /\ Parsed /\ DeclaresVersion(parsed)) =>
       Len(MigrateLog) <= IF FileVersion < currentVersion
                          THEN currentVersion - FileVersion ELSE 0
  /\ InLoop =>
       /\ dataVersion = FileVersion + Len(MigrateLog)
       /\ dataVersion <= currentVersion
       /\ \A i \in 1..Len(MigrateLog) : MigrateLog[i][2] = FileVersion + i - 1

\* C22: the migration loop of load executes at most currentVersion -
\* fileVersion iterations, its data version strictly increases on every
\* completed iteration, and every load call eventually resolves or rejects
\* provided the file read, parse, schema and migrate collaborators each
\* terminate.
C22_Terminates ==
  /\ []LoopBound
  /\ (call = "load" /\ pc # "done") ~> (call = "load" /\ pc = "done")
C22_Witness ==
  /\ LoadDone /\ outcome.status = "resolved" /\ ~outcome.default
  /\ currentVersion = MaxVersion
  /\ FileVersion = 1
  /\ Len(MigrateLog) = MaxVersion - 1

\* C23 -------------------------------------------------------------------
\* the calls of the log made to collaborator op, for migration step n
Calls(op, n) == SelectSeq(log, LAMBDA e : e[1] = op /\ e[2] = n)

\* C23: nothing is retried: within one load call the file is read exactly
\* once, serializer.parse is called at most once and each migration step's
\* migrate function is called at most once; within one save call encode,
\* stringify and write are each attempted at most once.
C23_NoRetry ==
  /\ \A op \in {"readFile", "parse", "encode", "stringify", "writeFile"} :
       Len(Calls(op, 0)) <= 1
  /\ \A n \in Versions : Len(Calls("migrate", n)) <= 1
  /\ (call = "load" /\ pc \notin {"getJsYaml", "readFile"}) => Len(Calls("readFile", 0)) = 1
  /\ call = "load" => \A op \in {"encode", "stringify", "writeFile"} : Calls(op, 0) = <<>>
  /\ call = "save" => \A op \in {"readFile", "parse"} : Calls(op, 0) = <<>>
C23_Witness ==
  /\ LoadDone /\ failedAt = "readFile"
  /\ outcome = Rejected("FileRead")
  /\ Len(Calls("readFile", 0)) = 1

\* C24 -------------------------------------------------------------------
\* the collaborators the call invoked, in order
Ops == [i \in 1..Len(log) |-> log[i][1]]
IsPrefix(s, t) == Len(s) <= Len(t) /\ s = SubSeq(t, 1, Len(s))

\* C24: save performs encode -> version tagging -> stringify -> write in
\* that order and calls writeFile only after encode and stringify have both
\* succeeded; when save rejects with Encoding, the target file is left
\* unchanged (a save changes no file before its write succeeds).
C24_Step ==
  call = "save" =>
    /\ IsPrefix(Ops, <<"encode", "stringify", "writeFile">>)
    /\ Len(log) >= 2 =>
         /\ encodeOk(schema, arg)
         /\ log[2][3] = fileData(encodeAsync(schema, arg))
    /\ Len(log) = 3 => failedAt \notin {"encode", "stringify"}
    /\ <<file, other>>' # <<file, other>> =>
         pc = "writeFile" /\ Len(log) = 2 /\ outcome'.status = "resolved"
    /\ outcome'.code = "Encoding" => <<file, other>>' = <<file, other>>
C24_SaveOrder == [][C24_Step]_vars
C24_Witness ==
  /\ SaveDone /\ outcome = Rejected("Encoding")
  /\ filePath = "q"
  /\ Ops = <<"encode">>
  /\ other # NoFile /\ file # NoFile

\* C25 -------------------------------------------------------------------
\* the supplied versions are 1, ..., n, each once, in any order
SequentialFromOne ==
  {options.migrations[i] : i \in 1..Len(options.migrations)} = 1..Len(options.migrations)

\* C25: the constructor checks run in the order sort -> sequential-from-1 ->
\* version-defined -> last-step-equals-V-1, and the first failing check
\* determines the error thrown: a migration list that is non-sequential and
\* also supplied without a version throws the sequential-chain error, not
\* the version-required error.
C25_CheckOrder ==
  pc \in {"ready", "threw"} =>
    ctorError =
      IF ~SequentialFromOne THEN "sequential"
      ELSE IF options.migrations # <<>> /\ ~options.hasVersion THEN "versionRequired"
      ELSE IF options.migrations # <<>> /\ Len(options.migrations) # options.version - 1
           THEN "chainEnd"
      ELSE "none"
C25_Witness ==
  /\ pc = "threw"
  /\ ~options.hasVersion
  /\ options.migrations = <<2>>
  /\ ctorError = "sequential"

\* C26 -------------------------------------------------------------------
\* the steps of the chain for version v
StepsFor(v) == {i \in 1..Len(sortedMigrations) : sortedMigrations[i] = v}

\* C26: for every instance constructed with a non-empty migration list, and
\* every file whose _version is a positive integer below currentVersion,
\* each chain lookup during load finds exactly one step: the 'No migration
\* found' Migration failure is unreachable.
C26_LookupFinds ==
  (Returned /\ options.migrations # <<>>) =>
    /\ failedAt # "lookup"
    /\ (pc = "lookup" /\ needsMigration) => Cardinality(StepsFor(dataVersion)) = 1
    /\ \A v \in 1..(currentVersion - 1) : Cardinality(StepsFor(v)) = 1
C26_Witness ==
  /\ pc = "stepSchema"
  /\ sortedMigrations = <<1, 2>>
  /\ dataVersion = 2
  /\ FileVersion = 1

\* C27 -------------------------------------------------------------------
NoMigrations == options.hasVersion /\ options.version > 1 /\ options.migrations = <<>>

\* C27: an instance configured with a version V > 1 and no migrations is
\* returned without error, and its load of any file whose _version is a
\* positive integer k < V fails at the first chain lookup with a Migration
\* failure (or the default), invoking no migrate function and no schema.
C27_NoMigrations ==
  (NoMigrations /\ pc # "new") =>
    /\ Returned /\ ctorError = "none"
    /\ (call = "load" /\ OlderFile) => ~Invoked({"migrate", "stepSchema", "schema"})
    /\ (LoadDone /\ OlderFile) =>
         /\ failedAt = "lookup"
         /\ dataVersion = FileVersion
         /\ IF Throwing THEN outcome = Rejected("Migration") ELSE FellBack
C27_Witness ==
  /\ NoMigrations /\ LoadDone /\ OlderFile
  /\ currentVersion = 3 /\ FileVersion = 2
  /\ failedAt = "lookup"
  /\ outcome = Defaulted(defaultValue, 0)

\* C28 -------------------------------------------------------------------
\* entry i is the last call of the log, or only getDefault follows it
EndsAt(i) == i = Len(log) \/ (i + 1 = Len(log) /\ log[i + 1][1] = "getDefault")
StepFailed == call = "load" /\ failedAt \in {"stepSchema", "migrate"}

\* C28: when migration step j fails (its schema rejects the data or its
\* migrate function throws or rejects), no later step's schema or migrate
\* function is invoked and the current schema is not run: the load ends
\* immediately in a Migration rejection or the default.
C28_StopsAtFailure ==
  /\ call = "load" =>
       \A i \in 1..Len(log) :
         (log[i][1] = "stepSchema" /\ ~parseOk(stepSchema(log[i][2]), log[i][3]))
           => EndsAt(i) /\ failedAt = "stepSchema" /\ pc = "done"
  /\ StepFailed =>
       /\ pc = "done"
       /\ ~Invoked({"schema"})
       /\ \E i \in 1..Len(log) :
            /\ EndsAt(i)
            /\ log[i][1] = failedAt /\ log[i][2] = dataVersion
            /\ \A j \in 1..Len(log) : log[j][2] <= dataVersion
       /\ IF Throwing THEN outcome = Rejected("Migration") ELSE FellBack
C28_Witness ==
  /\ LoadDone /\ failedAt = "migrate"
  /\ currentVersion = 3 /\ FileVersion = 1 /\ dataVersion = 1
  /\ Throwing
  /\ log[Len(log)][1] = "migrate"

\* C29 -------------------------------------------------------------------
\* C29: in non-versioned mode load hands the parsed value unchanged to the
\* current schema: it performs no _version check, strips no field and runs
\* no migration, even when the file contains a _version key.
C29_Unversioned ==
  (call = "load" /\ ~options.hasVersion) =>
    /\ pc \notin {"version", "lookup", "stepSchema", "migrate"}
    /\ failedAt \notin {"versionMissing", "versionInvalid", "futureVersion", "lookup",
                        "stepSchema", "migrate"}
    /\ ~Invoked({"stepSchema", "migrate"})
    /\ \A i \in 1..Len(log) : log[i][1] = "schema" => log[i][3] = parsed
    /\ pc = "validate" => data = parsed
    /\ (LoadDone /\ Parsed) => Invoked({"schema"})
C29_Witness ==
  /\ LoadDone /\ ~options.hasVersion
  /\ options.schema = "loose"
  /\ Has(parsed.o, "_version")
  /\ Get(parsed.o, "_version") = Null
  /\ outcome.status = "resolved" /\ ~outcome.default
  /\ SameValue(outcome.value, parsed)

\* C30 -------------------------------------------------------------------
\* C30: load never writes: after any load call, successful, migrated,
\* defaulted or rejected, the file content is what it was before (no step of
\* a load changes a file, and what the load parsed is what the file holds),
\* so a file at an old version stays at that version on disk and every
\* later load re-runs the same migrations.
C30_Step ==
  /\ (call = "load" \/ call' = "load") => <<file, other>>' = <<file, other>>
  /\ (call = "load" /\ Parsed) =>
       /\ fileAt(filePath).exists
       /\ ~parseThrows(fileAt(filePath).text)
       /\ parsed = parse(fileAt(filePath).text)
C30_LoadNeverWrites == [][C30_Step]_vars
C30_Witness ==
  /\ LoadDone /\ outcome.status = "resolved" /\ ~outcome.default
  /\ MigrateLog # <<>>
  /\ other.exists
  /\ fileAt(filePath).exists /\ ~fileAt(filePath).text.malformed
  /\ Get(fileAt(filePath).text.doc.o, "_version") = Num(1)
  /\ currentVersion = 2

\* C31 -------------------------------------------------------------------
\* a load settles in this step, resolved
LoadResolves ==
  /\ call' = "load" /\ pc # "done" /\ pc' = "done"
  /\ outcome'.status = "resolved"
\* C31 as stated: every value load resolves to is accepted by the instance's
\* current schema (it is a value of the schema's output type), including the
\* values returned through the default fallback.
C31_OriginalStep == LoadResolves => IsTyped(schema, outcome'.value)
C31_Original == [][C31_OriginalStep]_vars
\* C31 amended: every value load resolves to without falling back is the
\* output of the current schema's parse of the (migrated) file data and so is
\* accepted by that schema; a value returned through the default fallback is
\* the configured default, or the factory's product, exactly as it is: no
\* schema is called on it.
C31_Step ==
  LoadResolves =>
    IF outcome'.default
    THEN /\ outcome'.value = (IF options.default \in FixedDefaults THEN defaultState ELSE defaultValue)
         /\ log'[Len(log')] = Call("getDefault", 0, Null)
    ELSE /\ IsTyped(schema, outcome'.value)
         /\ parseOk(schema, data)
         /\ outcome'.value = parseAsync(schema, data)
         /\ log'[Len(log')] = Call("schema", 0, data)
C31_ResolvedAccepted == [][C31_Step]_vars
C31_Witness ==
  /\ LoadDone /\ outcome.status = "resolved" /\ ~outcome.default
  /\ options.schema = "codec"
  /\ MigrateLog # <<>>
  /\ IsTyped(schema, outcome.value)
  /\ ~parseOk(schema, outcome.value)

\* C32 -------------------------------------------------------------------
\* the load in flight read and parsed the file that this instance's own save
\* wrote last, and nothing has changed it since
OwnFile == LoadDone /\ versioned /\ saved.valid /\ Parsed
\* C32: for every versioned instance that createZodStore returns, a file
\* written by its save passes the version checks of its own load: the load
\* fails neither as InvalidVersion nor as UnsupportedVersion and runs zero
\* migrations.
C32_OwnFileLoads ==
  OwnFile =>
    /\ failedAt \notin {"versionMissing", "versionInvalid", "futureVersion"}
    /\ MigrateLog = <<>>

\* C33 -------------------------------------------------------------------
\* C33: with a fixed (non-factory) default, every fallback load returns a
\* value equal to the default as configured at construction, even after a
\* caller has mutated the object returned by an earlier fallback load.
C33_Step ==
  (LoadResolves /\ outcome'.default /\ options.default \in FixedDefaults)
    => outcome'.value = defaultValue
C33_FixedDefault == [][C33_Step]_vars

\* C34 -------------------------------------------------------------------
\* the load of one call run alone: what it settles with, given the result of
\* its readFile, its throwOnError and what its migrate functions answered
RECURSIVE LoneMigrate(_, _, _)
LoneMigrate(d, v, answers) ==
  IF v >= currentVersion THEN [ok |-> TRUE, data |-> d]
  ELSE IF ~found(v) \/ ~parseOk(stepSchema(v), d) \/ answers = <<>>
       THEN [ok |-> FALSE, data |-> d]
  ELSE IF Head(answers) \in {"throws", "rejects"} THEN [ok |-> FALSE, data |-> d]
  ELSE LoneMigrate(migrate(Head(answers), v, parseAsync(stepSchema(v), d)), v + 1, Tail(answers))
LoneFails(c, code) ==
  IF c.throwOnError \/ options.default = "none" THEN Rejected(code)
  ELSE IF options.default = "throwing" THEN Rejected("Error")
  ELSE Defaulted(IF options.default \in FixedDefaults THEN defaultState ELSE defaultValue, 0)
LoneValidate(c, d) ==
  IF parseOk(schema, d) THEN Resolved(parseAsync(schema, d)) ELSE LoneFails(c, "Validation")
LoneOutcome(c) ==
  IF ~c.readOk THEN LoneFails(c, "FileRead")
  ELSE IF parseThrows(c.fileContent) THEN LoneFails(c, "InvalidFormat")
  ELSE LET p == parse(c.fileContent)
       IN IF ~versioned THEN LoneValidate(c, p)
          ELSE IF missingVersion(p) THEN LoneFails(c, "InvalidVersion")
          ELSE IF invalidVersion(Get(p.o, "_version")) THEN LoneFails(c, "InvalidVersion")
          ELSE IF unsupportedVersion(Get(p.o, "_version").n)
          THEN LoneFails(c, "UnsupportedVersion")
          ELSE LET m == LoneMigrate(extractedData(p), Get(p.o, "_version").n, c.answers)
               IN IF m.ok THEN LoneValidate(c, m.data) ELSE LoneFails(c, "Migration")
\* the same settlement; which product of the factory it is is the factory's state
SameOutcome(a, b) ==
  /\ a.status = b.status /\ a.code = b.code /\ a.default = b.default
  /\ a.value = b.value
LoadSettled(i) == calls[i].op = "load" /\ calls[i].pc = "done"
\* C34: any number of overlapping load calls on one instance, interleaved at
\* their await points in any order, each resolve or reject exactly as the same
\* call would when run alone on the file content it read; the only state they
\* share is the caller's default factory: a step of a load changes the locals
\* of no other call and not the file.
C34_Step ==
  /\ \A i \in Slots :
       (calls'[i].op = "load" /\ calls[i].pc # "done" /\ calls'[i].pc = "done") =>
         SameOutcome(calls'[i].outcome, LoneOutcome(calls'[i]))
  /\ \A i \in Slots :
       (calls'[i] # calls[i] /\ calls'[i].op = "load") =>
         /\ \A j \in Slots \ {i} : calls'[j] = calls[j]
         /\ file' = file
C34_LoadsIndependent == [][C34_Step]_vars
\* two loads ran overlapped on different file contents: one migrated the
\* file it read, the other fell back
C34_Witness ==
  /\ LoadSettled(1) /\ LoadSettled(2)
  /\ 1 \in calls[2].overlaps
  /\ calls[1].readOk /\ calls[2].readOk
  /\ calls[1].fileContent # calls[2].fileContent
  /\ calls[1].outcome.default
  /\ ~calls[2].outcome.default /\ calls[2].outcome.status = "resolved"
  /\ calls[2].answers # <<>>

\* C35 -------------------------------------------------------------------
SaveResolved(i) ==
  calls[i].op = "save" /\ calls[i].pc = "done" /\ calls[i].outcome.status = "resolved"
Overlap(i, j) == i \in calls[j].overlaps \/ j \in calls[i].overlaps
\* i and j are two overlapped saves, both resolved, the only calls that wrote,
\* and no other call has the file open
BothSaved(i, j) ==
  /\ i # j /\ SaveResolved(i) /\ SaveResolved(j) /\ Overlap(i, j)
  /\ written \in {<<i, j>>, <<j, i>>}
  /\ \A k \in Slots : calls[k].pc # "write"
\* C35: when two save calls to the same path overlap and both resolve, the
\* file finally holds exactly the stringified output of the save whose
\* writeFile ran last: never a mixture of the two and never the output of the
\* earlier write.
C35_LastWriterWins ==
  \A i, j \in Slots :
    BothSaved(i, j) => file = File(calls[written[Len(written)]].content)

\* C36 -------------------------------------------------------------------
\* save(a, p) in slot 1 was invoked before save(b, p) in slot 2, which did not
\* await it; both resolved
CalledInOrder == BothSaved(1, 2) /\ 1 \in calls[2].overlaps
\* C36 as stated: if save(a, p) is invoked before save(b, p) on the same
\* instance without awaiting the first, and both resolve, the file ends up
\* holding the output for b (the save that was called last).
C36_Original == CalledInOrder => file = File(calls[2].content)
\* C36 amended: the order of the two calls does not decide the file.  Each
\* writeFile is issued when its own encoding settles, so either write may be
\* the last one, and the file ends up holding the output of the save whose
\* write ran last (a's or b's), or that output followed by the tail of the
\* other one, when the other one is longer and was written after the last
\* writer had opened the file.
C36_EitherOrder ==
  CalledInOrder =>
    LET last == calls[written[2]].content
        earlier == calls[written[1]].content
    IN \/ file = File(last)
       \/ /\ Size(earlier) > Size(last)
          /\ file.exists /\ file.text.malformed
          /\ file.text.doc = earlier.doc /\ file.text.compact = earlier.compact
C36_Witness ==
  /\ CalledInOrder
  /\ written = <<2, 1>>
  /\ file = File(calls[1].content)
  /\ calls[1].content # calls[2].content

\* C37 -------------------------------------------------------------------
Imported == {i \in Slots : calls[i].imported}
\* C37 as stated: in the YAML module, getJsYaml imports js-yaml successfully
\* at most once: after one successful import every later load or save reuses
\* the cached module without importing again, while a failed import caches
\* nothing, so the next load or save attempts the import again.
C37_Original == Cardinality(Imported) <= 1
\* C37 amended: the module is cached exactly when an import has succeeded and
\* stays cached; a load or save that is invoked while it is cached does not
\* import, one that is invoked while it is not cached (none succeeded yet:
\* each earlier import failed or is still pending) attempts the import; so
\* two calls import successfully only if they overlap, the later one invoked
\* before the import of the earlier one settled.
C37_Step ==
  /\ jsYamlModule' = (Imported' # {})
  /\ jsYamlModule => jsYamlModule'
  /\ \A i \in Slots :
       (calls[i].op = "none" /\ calls'[i].op # "none") => calls'[i].attempted = ~jsYamlModule
  /\ \A i \in Imported' : calls'[i].attempted
  /\ \A i, j \in Imported' : i # j => (i \in calls'[j].overlaps \/ j \in calls'[i].overlaps)
C37_ImportCache == [][C37_Step]_vars
\* the first call's import failed and cached nothing; the next call, invoked
\* after the first had settled, attempted the import again and got the module
C37_Witness ==
  /\ calls[1].attempted /\ ~calls[1].imported /\ calls[1].pc = "done"
  /\ calls[2].op # "none" /\ 1 \notin calls[2].overlaps
  /\ calls[2].attempted /\ calls[2].imported
  /\ jsYamlModule

\* C38 -------------------------------------------------------------------
\* C38: getDefault is only ever called when a default is configured: its 'No
\* default value configured' error is unreachable from any load call, with or
\* without throwOnError.
C38_DefaultConfigured ==
  call = "load" =>
    /\ Invoked({"getDefault"}) => options.default # "none"
    /\ (pc = "done" /\ options.default = "none" /\ outcome.status = "rejected")
         => outcome.code = StageCode(failedAt)
C38_Witness ==
  /\ LoadDone /\ ~throwOnError
  /\ options.default = "none"
  /\ failedAt = "validate"
  /\ outcome = Rejected("Validation")
  /\ ~Invoked({"getDefault"})

====
